---- MODULE Spec2Model ----
(***************************************************************************)
(* Model of scraper.py: the browser scrape (scrape_reviews_selenium), the  *)
(* plain-HTTP fallback (scrape_reviews_requests), the export               *)
(* (save_to_excel) and the main script that chains them.                   *)
(*                                                                         *)
(* Text is a sequence of one-character strings so that str.strip() is      *)
(* computed rather than assumed.  A Python value that may be None is a     *)
(* record [found, text].  A dict row is a sequence of <<key, value>> pairs *)
(* in insertion order, which is what pandas derives the columns from.      *)
(***************************************************************************)
EXTENDS Integers, Sequences, FiniteSets, TLC

\* ---------------------------------------------------------------- bounds
\* longest container list of a rendered document or of a generated page
MaxContainers == 6
\* longest row list handed directly to save_to_excel
MaxExport == 2

\* ------------------------------------------------------------------ text
IsSpace(c) == c \in {" ", "\t"}

RECURSIVE LStrip(_)
LStrip(t) ==
    IF t = <<>> THEN <<>>
    ELSE IF IsSpace(Head(t)) THEN LStrip(Tail(t)) ELSE t

RECURSIVE RStrip(_)
RStrip(t) ==
    IF t = <<>> THEN <<>>
    ELSE IF IsSpace(t[Len(t)]) THEN RStrip(SubSeq(t, 1, Len(t) - 1)) ELSE t

\* str.strip()
Strip(t) == RStrip(LStrip(t))

Anonymous == <<"A", "n", "o", "n", "y", "m", "o", "u", "s">>
NA == <<"N", "/", "A">>
NoComment == <<"N", "o", " ", "c", "o", "m", "m", "e", "n", "t">>
EmptyStr == <<>>

\* --------------------------------------------------------- DOM elements
\* result of review.find(tag, attrs): None, or an element with its .text
NoEl == [found |-> FALSE, text |-> <<>>]
El(t) == [found |-> TRUE, text |-> t]

\* a Python local that is None or a str
None == [found |-> FALSE, text |-> <<>>]
Str(t) == [found |-> TRUE, text |-> t]

\* truth value of None / str: None and '' are falsy
Truthy(v) == v.found /\ v.text # <<>>

\* A container: for each field, what each of the four sub-selectors of
\* scrape_reviews_selenium finds, in list order; `raises` says that
\* handling this container raises inside the per-review try block.
tBob == <<"B", "o", "b">>
tAl == <<" ", "A", "l", " ">>
tBlank == <<" ", "\t">>
t9 == <<"9">>
t8 == <<" ", "8">>
tOk == <<"o", "k">>

Mk(n, s, c, r) == [name |-> n, score |-> s, comment |-> c, raises |-> r]

KFull == Mk(<<El(tBob), NoEl, NoEl, NoEl>>,
            <<El(t9), NoEl, NoEl, NoEl>>,
            <<El(tOk), NoEl, NoEl, NoEl>>, FALSE)
KNone == Mk(<<NoEl, NoEl, NoEl, NoEl>>,
            <<NoEl, NoEl, NoEl, NoEl>>,
            <<NoEl, NoEl, NoEl, NoEl>>, FALSE)
KShadow == Mk(<<El(tBlank), El(tAl), NoEl, NoEl>>,
              <<NoEl, El(t8), NoEl, NoEl>>,
              <<El(<<>>), NoEl, El(tOk), NoEl>>, FALSE)
KLate == Mk(<<NoEl, NoEl, NoEl, El(tBob)>>,
            <<NoEl, NoEl, NoEl, NoEl>>,
            <<NoEl, El(tBlank), NoEl, NoEl>>, FALSE)
KRaise == Mk(<<El(tBob), NoEl, NoEl, NoEl>>,
             <<El(t9), NoEl, NoEl, NoEl>>,
             <<El(tOk), NoEl, NoEl, NoEl>>, TRUE)
KPad == Mk(<<El(tAl), NoEl, NoEl, NoEl>>,
           <<El(t8), NoEl, NoEl, NoEl>>,
           <<NoEl, NoEl, NoEl, NoEl>>, FALSE)

Kinds == <<KFull, KNone, KShadow, KLate, KRaise, KPad>>
NumKinds == Len(Kinds)

\* container list of length n, cycling through Kinds from offset off
Fill(n, off) == [i \in 1..n |-> Kinds[((i + off) % NumKinds) + 1]]
Repeat(n, k) == [i \in 1..n |-> k]

\* ------------------------------------------------------ field resolution
\* lines 67-71 / 81-85 / 95-99: walk the sub-selector list, stop at the
\* first sub-selector that finds an element, take its stripped text
RECURSIVE FirstFound(_)
FirstFound(els) ==
    IF els = <<>> THEN None
    ELSE IF Head(els).found THEN Str(Strip(Head(els).text))
    ELSE FirstFound(Tail(els))

\* the rule the specification states: stop only at a sub-selector whose
\* stripped text is non-empty (used to state C5, not by the model)
RECURSIVE FirstNonEmpty(_)
FirstNonEmpty(els) ==
    IF els = <<>> THEN None
    ELSE IF Head(els).found /\ Strip(Head(els).text) # <<>>
         THEN Str(Strip(Head(els).text))
    ELSE FirstNonEmpty(Tail(els))

ResolveField(els) == FirstFound(els)

Row(n, s, c) == << <<"Reviewer Name", n>>, <<"Score", s>>, <<"Comments", c>> >>

OrDefault(v, d) == IF Truthy(v) THEN v.text ELSE d

\* lines 106-110
SeleniumRow(c) ==
    Row(OrDefault(ResolveField(c.name), Anonymous),
        OrDefault(ResolveField(c.score), NA),
        OrDefault(ResolveField(c.comment), NoComment))

\* lines 147-155: only the first sub-selector of each field is tried, the
\* test is on the element (a Tag is always truthy), not on its text
ElemOr(e, d) == IF e.found THEN Strip(e.text) ELSE d

RequestsRow(c) ==
    Row(ElemOr(c.name[1], Anonymous),
        ElemOr(c.score[1], NA),
        ElemOr(c.comment[1], EmptyStr))

\* lines 52-114 / 145-158: a container adds a row unless handling it raised
EmitsRow_discardEmpty(c) ==
    /\ ~c.raises
    /\ \/ Truthy(ResolveField(c.name))
       \/ Truthy(ResolveField(c.score))
       \/ Truthy(ResolveField(c.comment))

EmitsRow(c) == ~c.raises

\* ------------------------------------------------------------- documents
Doc(d, a, i) == [div |-> d, article |-> a, item |-> i]

\* lines 40-48: div.review, else article.review, else .review-item
SelectContainers(doc) ==
    IF doc.div # <<>> THEN doc.div
    ELSE IF doc.article # <<>> THEN doc.article
    ELSE doc.item

\* line 141: div.review only
RequestsContainers(doc) == doc.div

Lists == { Fill(n, off) : n \in 0..MaxContainers, off \in 0..(NumKinds - 1) }

\* what driver.page_source can hold when it is read
RenderedDocs ==
    { Doc(l, <<>>, <<>>) : l \in Lists }
      \cup { Doc(<<>>, l, Fill(1, 0)) : l \in Lists }
      \cup { Doc(<<>>, <<>>, l) : l \in Lists }

\* a site is the sequence of its pages; the URL of line 181 names page 1
Page(doc, nxt) == [doc |-> doc, hasNext |-> nxt]

ExampleSite ==
    << Page(Doc(Repeat(12, KFull), <<>>, <<>>), TRUE),
       Page(Doc(Repeat(3, KPad), <<>>, <<>>), FALSE) >>

Sites ==
    { ExampleSite }
      \cup { << Page(Doc(Fill(n, 0), <<>>, <<>>), FALSE) >> : n \in 0..MaxContainers }
      \cup { << Page(Doc(<<>>, Fill(2, 0), <<>>), TRUE),
                Page(Doc(Fill(1, 0), <<>>, <<>>), FALSE) >> }

\* ---------------------------------------------------------------- export
\* pd.DataFrame(list of dicts): the columns are the keys in order of first
\* appearance over the rows
Keys(row) == [i \in 1..Len(row) |-> row[i][1]]

HasKey(ks, k) == \E i \in 1..Len(ks) : ks[i] = k

RECURSIVE Merge(_, _)
Merge(ks, more) ==
    IF more = <<>> THEN ks
    ELSE IF HasKey(ks, Head(more)) THEN Merge(ks, Tail(more))
    ELSE Merge(Append(ks, Head(more)), Tail(more))

RECURSIVE Columns(_)
Columns(rows) ==
    IF rows = <<>> THEN <<>>
    ELSE Merge(Keys(Head(rows)), Columns(Tail(rows)))

\* a cell: the row's value under the column, an empty cell when absent
Cell(row, k) ==
    IF \E i \in 1..Len(row) : row[i][1] = k
    THEN row[CHOOSE i \in 1..Len(row) : row[i][1] = k][2]
    ELSE <<>>

NoFile == [written |-> FALSE, sheet |-> "", header |-> <<>>, data |-> <<>>]

\* df.to_excel(filename, index=False, sheet_name='Reviews')
ToExcel(rows) ==
    [written |-> TRUE,
     sheet |-> "Reviews",
     header |-> Columns(rows),
     data |-> [i \in 1..Len(rows) |->
                 [j \in 1..Len(Columns(rows)) |-> Cell(rows[i], Columns(rows)[j])]]]

\* lines 166-178: the written file and the returned value
save_to_excel_dropLast(rows) ==
    IF rows = <<>> THEN [file |-> NoFile, ret |-> FALSE]
    ELSE [file |-> ToExcel(SubSeq(rows, 1, Len(rows) - 1)), ret |-> TRUE]

save_to_excel(rows) ==
    IF rows = <<>> THEN [file |-> NoFile, ret |-> FALSE]
    ELSE [file |-> ToExcel(rows), ret |-> TRUE]

\* ------------------------------------------------------------ main logic
\* line 190
NeedFallback_offByOne(rs) == Len(rs) <= 5

NeedFallback(rs) == Len(rs) < 5

\* lines 29-37 and 120: the wait either passes on to the settle delay or
\* raises TimeoutException into the outer handler
AfterWait_ignoreTimeout(ok) == "sel_sleep"

AfterWait(ok) == IF ok THEN "sel_sleep" ELSE "sel_except"

\* line 160: the function returns after the one page it fetched
AfterPage_paged(hasNext, n, fetched) ==
    IF hasNext /\ n >= 10 /\ fetched < 2 THEN "req_get" ELSE "req_return"

AfterPage(hasNext, n, fetched) == "req_return"

\* lines 194-197 fall off the end of the script: exit status 0
MainExit_failOnEmpty(rs) == IF rs = <<>> THEN 1 ELSE 0

MainExit(rs) == 0

\* an uncaught exception ends the interpreter with status 1
UncaughtExit == 1

\* ----------------------------------------------------------------- state
VARIABLES
    pc,          \* position in the script / in the running function
    site,        \* the pages the URL serves over plain HTTP
    driverBound, \* the local `driver` of scrape_reviews_selenium is bound
    acquired,    \* browser sessions created
    quits,       \* driver.quit() calls
    events,      \* what the browser scrape did, in order
    containers,  \* review_containers of the running function
    idx,         \* loop position in containers
    local,       \* the local `reviews` of the running function
    selRet,      \* [returned, value] of scrape_reviews_selenium
    reqRet,      \* [returned, value] of scrape_reviews_requests
    reviews,     \* the module-level `reviews`
    log,         \* one entry per container handled
    httpFetches, \* requests.get calls
    httpFailed,  \* a requests.get / raise_for_status raised
    lastPage,    \* the page the last successful requests.get returned
    fallbackRuns,\* calls of scrape_reviews_requests
    saveCalls,   \* calls of save_to_excel
    saveArg,     \* the list the last call was given
    saveRet,     \* its return value
    file,        \* the spreadsheet on disk
    printedNone, \* "No reviews were scraped..." was printed
    uncaught,    \* an exception left the script
    exitCode     \* process exit status, -1 while running

vars == <<pc, site, driverBound, acquired, quits, events, containers, idx,
          local, selRet, reqRet, reviews, log, httpFetches, httpFailed,
          lastPage, fallbackRuns, saveCalls, saveArg, saveRet, file,
          printedNone, uncaught, exitCode>>

NotReturned == [returned |-> FALSE, value |-> <<>>]
Returned(v) == [returned |-> TRUE, value |-> v]
NoPage == Page(Doc(<<>>, <<>>, <<>>), FALSE)

Blank ==
    /\ driverBound = FALSE
    /\ acquired = 0
    /\ quits = 0
    /\ events = <<>>
    /\ containers = <<>>
    /\ idx = 1
    /\ local = <<>>
    /\ selRet = NotReturned
    /\ reqRet = NotReturned
    /\ reviews = <<>>
    /\ log = <<>>
    /\ httpFetches = 0
    /\ httpFailed = FALSE
    /\ lastPage = NoPage
    /\ fallbackRuns = 0
    /\ saveCalls = 0
    /\ saveArg = <<>>
    /\ saveRet = FALSE
    /\ file = NoFile
    /\ printedNone = FALSE
    /\ uncaught = FALSE
    /\ exitCode = -1

Init ==
    /\ pc = "main"
    /\ site \in Sites
    /\ Blank

\* one log entry per container handled by a scraper
Entry(who, c, emitted, row) ==
    [scraper |-> who, container |-> c, emitted |-> emitted, row |-> row]

\* ------------------------------------------------- scrape_reviews_selenium
\* line 187 calls the function; line 16 binds the local list
MainCallSelenium ==
    /\ pc = "main"
    /\ pc' = "sel_construct"
    /\ local' = <<>>
    /\ UNCHANGED <<site, driverBound, acquired, quits, events, containers, idx,
                   selRet, reqRet, reviews, log, httpFetches, httpFailed,
                   lastPage, fallbackRuns, saveCalls, saveArg, saveRet, file,
                   printedNone, uncaught, exitCode>>

\* line 25: webdriver.Chrome(options=...) binds `driver`, or raises
SelConstruct ==
    /\ pc = "sel_construct"
    /\ \E ok \in BOOLEAN :
         IF ok
         THEN /\ driverBound' = TRUE
              /\ acquired' = acquired + 1
              /\ events' = Append(events, "construct")
              /\ pc' = "sel_get"
         ELSE /\ pc' = "sel_except"
              /\ UNCHANGED <<driverBound, acquired, events>>
    /\ UNCHANGED <<site, quits, containers, idx, local, selRet, reqRet,
                   reviews, log, httpFetches, httpFailed, lastPage,
                   fallbackRuns, saveCalls, saveArg, saveRet, file,
                   printedNone, uncaught, exitCode>>

\* line 26: driver.get(url)
SelGet ==
    /\ pc = "sel_get"
    /\ \E ok \in BOOLEAN :
         IF ok
         THEN /\ events' = Append(events, "get")
              /\ pc' = "sel_wait"
         ELSE /\ pc' = "sel_except"
              /\ UNCHANGED events
    /\ UNCHANGED <<site, driverBound, acquired, quits, containers, idx, local,
                   selRet, reqRet, reviews, log, httpFetches, httpFailed,
                   lastPage, fallbackRuns, saveCalls, saveArg, saveRet, file,
                   printedNone, uncaught, exitCode>>

\* lines 29-31: WebDriverWait(driver, 10).until(presence of .review)
SelWait ==
    /\ pc = "sel_wait"
    /\ \E ok \in BOOLEAN :
         /\ events' = Append(events, IF ok THEN "wait_ok" ELSE "wait_timeout")
         /\ pc' = AfterWait(ok)
    /\ UNCHANGED <<site, driverBound, acquired, quits, containers, idx, local,
                   selRet, reqRet, reviews, log, httpFetches, httpFailed,
                   lastPage, fallbackRuns, saveCalls, saveArg, saveRet, file,
                   printedNone, uncaught, exitCode>>

\* line 34: time.sleep(3)
SelSleep ==
    /\ pc = "sel_sleep"
    /\ events' = Append(events, "sleep")
    /\ pc' = "sel_read"
    /\ UNCHANGED <<site, driverBound, acquired, quits, containers, idx, local,
                   selRet, reqRet, reviews, log, httpFetches, httpFailed,
                   lastPage, fallbackRuns, saveCalls, saveArg, saveRet, file,
                   printedNone, uncaught, exitCode>>

\* lines 37-50: read driver.page_source, parse it, select the containers;
\* a failure here is the outer handler's
SelRead ==
    /\ pc = "sel_read"
    /\ \/ \E doc \in RenderedDocs :
            /\ events' = Append(events, "read")
            /\ containers' = SelectContainers(doc)
            /\ idx' = 1
            /\ pc' = "sel_loop"
       \/ /\ pc' = "sel_except"
          /\ UNCHANGED <<events, containers, idx>>
    /\ UNCHANGED <<site, driverBound, acquired, quits, local, selRet, reqRet,
                   reviews, log, httpFetches, httpFailed, lastPage,
                   fallbackRuns, saveCalls, saveArg, saveRet, file,
                   printedNone, uncaught, exitCode>>

\* lines 52-114: one pass of the loop body
SelLoop ==
    /\ pc = "sel_loop"
    /\ idx <= Len(containers)
    /\ LET c == containers[idx] IN
         IF EmitsRow(c)
         THEN /\ local' = Append(local, SeleniumRow(c))
              /\ log' = Append(log, Entry("selenium", c, TRUE, SeleniumRow(c)))
         ELSE /\ local' = local
              /\ log' = Append(log, Entry("selenium", c, FALSE, <<>>))
    /\ idx' = idx + 1
    /\ UNCHANGED <<pc, site, driverBound, acquired, quits, events, containers,
                   selRet, reqRet, reviews, httpFetches, httpFailed, lastPage,
                   fallbackRuns, saveCalls, saveArg, saveRet, file,
                   printedNone, uncaught, exitCode>>

\* lines 116-118 and the assignment of line 187
SelQuit ==
    /\ pc = "sel_loop"
    /\ idx > Len(containers)
    /\ quits' = quits + 1
    /\ events' = Append(events, "quit")
    /\ selRet' = Returned(local)
    /\ reviews' = local
    /\ pc' = "main_check"
    /\ UNCHANGED <<site, driverBound, acquired, containers, idx, local, reqRet,
                   log, httpFetches, httpFailed, lastPage, fallbackRuns,
                   saveCalls, saveArg, saveRet, file, printedNone, uncaught,
                   exitCode>>

\* lines 120-123: the handler quits `driver` and returns []; with `driver`
\* unbound the reference raises UnboundLocalError out of the function and,
\* nothing catching it, out of the script
SelExcept ==
    /\ pc = "sel_except"
    /\ IF driverBound
       THEN /\ quits' = quits + 1
            /\ events' = Append(events, "quit")
            /\ selRet' = Returned(<<>>)
            /\ reviews' = <<>>
            /\ pc' = "main_check"
            /\ UNCHANGED <<uncaught, exitCode>>
       ELSE /\ uncaught' = TRUE
            /\ exitCode' = UncaughtExit
            /\ pc' = "crashed"
            /\ UNCHANGED <<quits, events, selRet, reviews>>
    /\ UNCHANGED <<site, driverBound, acquired, containers, idx, local, reqRet,
                   log, httpFetches, httpFailed, lastPage, fallbackRuns,
                   saveCalls, saveArg, saveRet, file, printedNone>>

\* ------------------------------------------------------------ main script
\* lines 190-192: the test, and the call that binds the fallback's list
MainCheck ==
    /\ pc = "main_check"
    /\ IF NeedFallback(reviews)
       THEN /\ pc' = "req_get"
            /\ fallbackRuns' = fallbackRuns + 1
            /\ local' = <<>>
            /\ containers' = <<>>
            /\ idx' = 1
       ELSE /\ pc' = "main_save"
            /\ UNCHANGED <<fallbackRuns, local, containers, idx>>
    /\ UNCHANGED <<site, driverBound, acquired, quits, events, selRet, reqRet,
                   reviews, log, httpFetches, httpFailed, lastPage, saveCalls,
                   saveArg, saveRet, file, printedNone, uncaught, exitCode>>

\* ------------------------------------------------- scrape_reviews_requests
\* lines 135-143 and 162-164: one GET of the URL (page 1 of the site)
ReqGet ==
    /\ pc = "req_get"
    /\ httpFetches' = httpFetches + 1
    /\ \E ok \in BOOLEAN :
         IF ok
         THEN /\ lastPage' = site[1]
              /\ containers' = RequestsContainers(site[1].doc)
              /\ idx' = 1
              /\ pc' = "req_loop"
              /\ UNCHANGED <<httpFailed, reqRet, reviews>>
         ELSE /\ httpFailed' = TRUE
              /\ reqRet' = Returned(<<>>)
              /\ reviews' = <<>>
              /\ pc' = "main_save"
              /\ UNCHANGED <<lastPage, containers, idx>>
    /\ UNCHANGED <<site, driverBound, acquired, quits, events, local, selRet,
                   log, fallbackRuns, saveCalls, saveArg, saveRet, file,
                   printedNone, uncaught, exitCode>>

\* lines 145-158: one pass of the loop body
ReqLoop ==
    /\ pc = "req_loop"
    /\ idx <= Len(containers)
    /\ LET c == containers[idx] IN
         IF EmitsRow(c)
         THEN /\ local' = Append(local, RequestsRow(c))
              /\ log' = Append(log, Entry("requests", c, TRUE, RequestsRow(c)))
         ELSE /\ local' = local
              /\ log' = Append(log, Entry("requests", c, FALSE, <<>>))
    /\ idx' = idx + 1
    /\ UNCHANGED <<pc, site, driverBound, acquired, quits, events, containers,
                   selRet, reqRet, reviews, httpFetches, httpFailed, lastPage,
                   fallbackRuns, saveCalls, saveArg, saveRet, file,
                   printedNone, uncaught, exitCode>>

\* the loop is over
ReqLoopEnd ==
    /\ pc = "req_loop"
    /\ idx > Len(containers)
    /\ pc' = AfterPage(lastPage.hasNext, Len(containers), httpFetches)
    /\ UNCHANGED <<site, driverBound, acquired, quits, events, containers, idx,
                   local, selRet, reqRet, reviews, log, httpFetches,
                   httpFailed, lastPage, fallbackRuns, saveCalls, saveArg,
                   saveRet, file, printedNone, uncaught, exitCode>>

\* line 160 and the assignment of line 192
ReqReturn ==
    /\ pc = "req_return"
    /\ reqRet' = Returned(local)
    /\ reviews' = local
    /\ pc' = "main_save"
    /\ UNCHANGED <<site, driverBound, acquired, quits, events, containers, idx,
                   local, selRet, log, httpFetches, httpFailed, lastPage,
                   fallbackRuns, saveCalls, saveArg, saveRet, file,
                   printedNone, uncaught, exitCode>>

\* lines 194-197, then the end of the script
MainSave ==
    /\ pc = "main_save"
    /\ IF reviews # <<>>
       THEN /\ saveCalls' = saveCalls + 1
            /\ saveArg' = reviews
            /\ saveRet' = save_to_excel(reviews).ret
            /\ file' = save_to_excel(reviews).file
            /\ UNCHANGED printedNone
       ELSE /\ printedNone' = TRUE
            /\ UNCHANGED <<saveCalls, saveArg, saveRet, file>>
    /\ exitCode' = MainExit(reviews)
    /\ pc' = "done"
    /\ UNCHANGED <<site, driverBound, acquired, quits, events, containers, idx,
                   local, selRet, reqRet, reviews, log, httpFetches,
                   httpFailed, lastPage, fallbackRuns, uncaught>>

Next ==
    \/ MainCallSelenium
    \/ SelConstruct
    \/ SelGet
    \/ SelWait
    \/ SelSleep
    \/ SelRead
    \/ SelLoop
    \/ SelQuit
    \/ SelExcept
    \/ MainCheck
    \/ ReqGet
    \/ ReqLoop
    \/ ReqLoopEnd
    \/ ReqReturn
    \/ MainSave

Spec == Init /\ [][Next]_vars

\* ------------------------------------------- save_to_excel called directly
ExportRows ==
    { SeleniumRow(Kinds[i]) : i \in 1..NumKinds }
      \cup { RequestsRow(Kinds[i]) : i \in 1..NumKinds }

RECURSIVE SeqsUpTo(_, _)
SeqsUpTo(S, n) ==
    IF n = 0 THEN { <<>> }
    ELSE SeqsUpTo(S, n - 1)
           \cup { Append(q, x) : q \in { r \in SeqsUpTo(S, n - 1) : Len(r) = n - 1 },
                                 x \in S }

InitExport ==
    /\ pc = "export"
    /\ site = ExampleSite
    /\ driverBound = FALSE
    /\ acquired = 0
    /\ quits = 0
    /\ events = <<>>
    /\ containers = <<>>
    /\ idx = 1
    /\ local = <<>>
    /\ selRet = NotReturned
    /\ reqRet = NotReturned
    /\ reviews \in SeqsUpTo(ExportRows, MaxExport)
    /\ log = <<>>
    /\ httpFetches = 0
    /\ httpFailed = FALSE
    /\ lastPage = NoPage
    /\ fallbackRuns = 0
    /\ saveCalls = 0
    /\ saveArg = <<>>
    /\ saveRet = FALSE
    /\ file = NoFile
    /\ printedNone = FALSE
    /\ uncaught = FALSE
    /\ exitCode = -1

\* lines 166-178 applied to the list
ExportCall ==
    /\ pc = "export"
    /\ saveCalls' = saveCalls + 1
    /\ saveArg' = reviews
    /\ saveRet' = save_to_excel(reviews).ret
    /\ file' = save_to_excel(reviews).file
    /\ pc' = "export_done"
    /\ UNCHANGED <<site, driverBound, acquired, quits, events, containers, idx,
                   local, selRet, reqRet, reviews, log, httpFetches,
                   httpFailed, lastPage, fallbackRuns, printedNone, uncaught,
                   exitCode>>

NextExport == ExportCall

SpecExport == InitExport /\ [][NextExport]_vars

\* ============================================================ properties
Terminated == pc \in {"done", "crashed"}

\* scrape_reviews_selenium was entered and has ended, one way or the other
SelEnded == selRet.returned \/ pc = "crashed"

Occurs(ev) == \E i \in 1..Len(events) : events[i] = ev

EntriesOf(who) == { i \in 1..Len(log) : log[i].scraper = who }

EmittedBy(who) == { i \in EntriesOf(who) : log[i].emitted }

NonEmptyText(e) == e.found /\ Strip(e.text) # <<>>

\* the sub-selectors a scraper tries for a field
Tried(who, els) == IF who = "selenium" THEN els ELSE <<els[1]>>

\* some sub-selector the scraper tries finds non-empty text
HasText(who, els) ==
    \E j \in 1..Len(Tried(who, els)) : NonEmptyText(Tried(who, els)[j])

NameOf(row) == Cell(row, "Reviewer Name")
ScoreOf(row) == Cell(row, "Score")
CommentsOf(row) == Cell(row, "Comments")

BothEmpty ==
    /\ selRet.returned /\ selRet.value = <<>>
    /\ reqRet.returned /\ reqRet.value = <<>>

RECURSIVE PageRows(_)
PageRows(cs) ==
    IF cs = <<>> THEN <<>>
    ELSE IF Head(cs).raises THEN PageRows(Tail(cs))
    ELSE <<RequestsRow(Head(cs))>> \o PageRows(Tail(cs))

\* C1: when scrape_reviews_selenium has ended, every browser session it
\* acquired has been quit exactly once and the function ended by returning
\* a list, whichever step failed (construction, get, wait, read) or none.
C1_SessionReleasedOnEveryExit ==
    SelEnded => (quits = acquired /\ selRet.returned /\ ~uncaught)

C3_DefaultsInEveryRow ==
    \A i \in 1..Len(log) :
        log[i].emitted =>
            LET c == log[i].container
                who == log[i].scraper
                row == log[i].row
            IN /\ ~HasText(who, c.name) => NameOf(row) = Anonymous
               /\ ~HasText(who, c.score) => ScoreOf(row) = NA
               /\ ~HasText(who, c.comment) => CommentsOf(row) = NoComment
               /\ NameOf(row) # <<>>
               /\ ScoreOf(row) # <<>>
               /\ CommentsOf(row) # <<>>

C5_FirstNonEmptySubSelector ==
    \A i \in EmittedBy("selenium") :
        LET c == log[i].container
            row == log[i].row
        IN /\ Truthy(FirstNonEmpty(c.name)) => NameOf(row) = FirstNonEmpty(c.name).text
           /\ Truthy(FirstNonEmpty(c.score)) => ScoreOf(row) = FirstNonEmpty(c.score).text
           /\ Truthy(FirstNonEmpty(c.comment)) =>
                CommentsOf(row) = FirstNonEmpty(c.comment).text

\* C6: when the HTTP fetch failed, the rows the browser scrape had returned
\* are still in the final list at the end of the run, and are exported.
C6_FailedFetchKeepsCollected ==
    (pc = "done" /\ httpFailed) =>
        /\ \A i \in 1..Len(selRet.value) :
             \E j \in 1..Len(reviews) : reviews[j] = selRet.value[i]
        /\ selRet.value # <<>> => (file.written /\ Len(file.data) >= Len(selRet.value))

C8_ExportRowsAndHeader ==
    pc = "export_done" =>
        IF reviews = <<>>
        THEN ~file.written /\ saveRet = FALSE
        ELSE /\ file.written
             /\ saveRet = TRUE
             /\ file.sheet = "Reviews"
             /\ file.header = <<"Reviewer Name", "Score", "Comments">>
             /\ Len(file.data) = Len(reviews)
             /\ \A i \in 1..Len(reviews) :
                  file.data[i] = <<reviews[i][1][2], reviews[i][2][2], reviews[i][3][2]>>

C8_Witness ==
    /\ pc = "export_done"
    /\ Len(reviews) = 2
    /\ reviews[1] # reviews[2]
    /\ file.written
    /\ Len(file.data) = 2

\* C9: the rendered document is read only directly after the settle delay,
\* which comes directly after a successful wait; after a timed-out wait the
\* document is never read, no container is handled and the function's result
\* is the empty list.
C9_ReadOnlyAfterWaitAndSettle ==
    /\ \A i \in 1..Len(events) :
         events[i] = "read" =>
            /\ i >= 3
            /\ events[i - 1] = "sleep"
            /\ events[i - 2] = "wait_ok"
    /\ EntriesOf("selenium") # {} => Occurs("read")
    /\ Occurs("wait_timeout") =>
         /\ ~Occurs("read")
         /\ ~Occurs("sleep")
         /\ EntriesOf("selenium") = {}
         /\ selRet.returned => selRet.value = <<>>

C9_Witness ==
    /\ Occurs("wait_ok")
    /\ Occurs("sleep")
    /\ Occurs("read")
    /\ EntriesOf("selenium") # {}
    /\ selRet.returned
    /\ selRet.value # <<>>

\* C10: the fallback runs exactly when the browser scrape returned fewer than
\* 5 rows, and at most once; the final list is the browser scrape's when that
\* has 5 rows or more and the fallback's otherwise; save_to_excel is called,
\* with that list, exactly when it is non-empty.
C10_FallbackIffFewerThanFive ==
    /\ fallbackRuns <= 1
    /\ saveCalls <= 1
    /\ fallbackRuns = 1 => (selRet.returned /\ Len(selRet.value) < 5)
    /\ (selRet.returned /\ Len(selRet.value) < 5 /\ pc # "main_check") =>
         fallbackRuns = 1
    /\ pc = "crashed" => (fallbackRuns = 0 /\ saveCalls = 0)
    /\ pc = "done" =>
         /\ Len(selRet.value) >= 5 => (reviews = selRet.value /\ ~reqRet.returned)
         /\ Len(selRet.value) < 5 => (reqRet.returned /\ reviews = reqRet.value)
         /\ saveCalls = 1 <=> reviews # <<>>
         /\ saveCalls = 1 => saveArg = reviews

C10_Witness ==
    /\ pc = "done"
    /\ Len(selRet.value) = 5
    /\ fallbackRuns = 0
    /\ saveCalls = 1
    /\ saveArg = selRet.value

====
